---- MODULE Spec2Model ----
(***************************************************************************)
(* Model of the upload-and-orchestrate request handler of SimuCFO          *)
(* (handleUpload, simulation variant) together with the multipart          *)
(* receiver in front of it, the storage bucket, the shared inputs          *)
(* directory and the fixed-path artifacts of the external processes.       *)
(***************************************************************************)
EXTENDS Integers, Sequences, FiniteSets, TLC

(***************************************************************************)
(* Bounds                                                                  *)
(***************************************************************************)
\* most file parts one request carries
MaxFiles == 2
\* Math.round(Math.random() * 1E9) is drawn from 0..MaxRnd
MaxRnd == 1

\* the requests in flight
Reqs == {"A", "B"}

(***************************************************************************)
(* Names and texts of the program                                          *)
(***************************************************************************)
FieldName == "pdfFile"
PdfMime == "application/pdf"
Placeholder == ".emptyFolderPlaceholder"
DefaultQuestion == "Run a comprehensive financial risk analysis"
MetricsFile == "computed_metrics.json"
FullFile == "monte_carlo_analysis.json"
MsgNoFile == "No file uploaded"
MsgSimDone == "Files processed and simulation complete"
MsgAnalysisDone == "Analysis completed successfully."
MsgListSkipped == "Files uploaded, but processing skipped due to listing error."
MsgNoOutput == "No analysis output file found."
MsgMetricsOnly == "Analysis completed (Metrics only)."
MsgAnalysisDefault == "Analysis completed."
PdfPrefix == "PDF Processor failed: "
McPrefix == "Monte Carlo simulation failed: "

\* JavaScript null
Null == [null |-> TRUE]
\* JavaScript {}
EmptyObject == [empty |-> TRUE]

(***************************************************************************)
(* Inputs                                                                  *)
(***************************************************************************)
\* file parts a client may send: original name (stem and extension) and
\* declared content type
PdfPart == [stem |-> "report", ext |-> ".pdf", mimetype |-> PdfMime]
TextPart == [stem |-> "notes", ext |-> ".txt", mimetype |-> "text/plain"]
PartKinds == { PdfPart, TextPart }

\* req.body of the multipart form: with or without a question field
NoFields == [a |-> 0]
Bodies ==
  { NoFields, [question |-> ""], [question |-> "What is the Q3 burn rate?"] }
OtherBody == [question |-> "Is runway above 12 months?"]

\* values of Date.now() while the requests are received
Nows == {1}

\* error messages of the storage client and of child_process.exec
TransportError == "fetch failed"
DuplicateError == "The resource already exists"
ExecErrors == {"Command failed: exit code 1", "spawn ENOENT"}

StoredObject(name, content) == [name |-> name, content |-> content]

\* the bucket before the requests: it holds the folder placeholder
InitBuckets == { << StoredObject(Placeholder, [of |-> "storage", part |-> 0]) >> }

(***************************************************************************)
(* Sequence helpers                                                        *)
(***************************************************************************)
SeqsUpTo(S, n) == UNION { [1..k -> S] : k \in 0..n }

(***************************************************************************)
(* Upload Receiver: multer.diskStorage filename and fileFilter             *)
(***************************************************************************)
OriginalName(part) == part.stem \o part.ext

\* path.extname(file.originalname)
ExtName(part) == part.ext

\* file.fieldname + '-' + Date.now() + '-' + Math.round(Math.random()*1E9)
\*   + path.extname(file.originalname)
Filename(part, now, rnd) ==
  FieldName \o "-" \o ToString(now) \o "-" \o ToString(rnd) \o ExtName(part)

\* variant: a filter that lets every part through
FileFilter_AcceptAll(part) == TRUE

FileFilter(part) == part.mimetype = PdfMime

(***************************************************************************)
(* Artifacts of the simulation process                                     *)
(***************************************************************************)
\* variant: a working directory per request
MlSimulatorDir_Scoped(r) == "ml-simulator/" \o r

\* mlSimulatorDir: the working directory the handler gives the simulation
\* of request r and reads the artifacts from; the same for every request
MlSimulatorDir(r) == "ml-simulator"

\* directories a working directory could be
Dirs == { "ml-simulator" } \cup { "ml-simulator/" \o r : r \in Reqs }

ArtifactFiles == { MetricsFile, FullFile }

\* path.join(mlSimulatorDir, file)
ArtifactPath(r, f) == << MlSimulatorDir(r), f >>

\* computed_metrics.json as written by the run started by request `by`
MetricsDoc(by) == [by |-> by, kind |-> "metrics"]

\* monte_carlo_analysis.json as written by the run started by request `by`;
\* optional members are sequences of length at most one
FullDoc(by, complete) ==
  [by |-> by, kind |-> "full",
   analysis_results |->
     IF complete
       THEN << [computed_answer |-> << [by |-> by, kind |-> "answer"] >>,
                llm_explanation |-> << "explanation" >>] >>
       ELSE << >>]

\* what one run of the simulation process leaves in its working directory
Writes == {"none", "metrics", "full", "both"}

Written(d, dir, by, w) ==
  [d EXCEPT
     ![<< dir, MetricsFile >>] =
        IF w \in {"metrics", "both"} THEN << MetricsDoc(by) >> ELSE @,
     ![<< dir, FullFile >>] =
        IF w \in {"full", "both"} THEN << FullDoc(by, by # "earlier") >> ELSE @]

NoArtifacts == [p \in Dirs \X ArtifactFiles |-> << >>]

\* the artifact files before the requests: none, or left by an earlier run
InitDisks ==
  { NoArtifacts, Written(NoArtifacts, "ml-simulator", "earlier", "both") }

\* fs.existsSync(path)
ExistsSync(d, path) == d[path] # << >>

\* JSON.parse(fs.readFileSync(path))
ReadJson(d, path) == d[path][1]

\* fullAnalysis.analysis_results?.computed_answer || {}
ComputedAnswer(doc) ==
  IF doc.analysis_results # << >> /\ doc.analysis_results[1].computed_answer # << >>
    THEN doc.analysis_results[1].computed_answer[1]
    ELSE EmptyObject

\* fullAnalysis.analysis_results?.llm_explanation || "Analysis completed."
Explanation(doc) ==
  IF doc.analysis_results # << >> /\ doc.analysis_results[1].llm_explanation # << >>
    THEN doc.analysis_results[1].llm_explanation[1]
    ELSE MsgAnalysisDefault

(***************************************************************************)
(* State                                                                   *)
(***************************************************************************)
VARIABLES
  pc,        \* where each request's handler is suspended
  req,       \* the request: its parts and its form body
  files,     \* the files multer accepted (req.files / req.file)
  results,   \* the handler's results array
  idx,       \* index of the loop the handler is suspended in
  fileList,  \* the bucket listing the handler obtained
  bucket,    \* objects of the 'pdfs' bucket in creation order
  inputs,    \* files of the shared data-scripts/inputs directory
  disk,      \* the artifact files, by directory and name
  simExit,   \* how each request's simulation process ended
  sends,     \* every res.status(..).send/json call of each request, in order
  reads,     \* the artifact files each request read, in order
  trace,     \* the calls, artifact reads and sends of each request, in program order
  log,       \* the storage calls and processes of each request that have
             \* ended, in order, with their outcome
  shPc,      \* simulation start, on its own: where step 4 of the handler is
  shBody,    \* ... the form body, its question as a sequence of characters
  mcCommand, \* ... the command line given to exec
  mcProcess, \* ... what the shell made of it
  route,     \* browser: the route shown
  locState,  \* ... location.state of that route
  ppPc,      \* ... where ProcessingPage's effect is
  ppStatus,  \* ... ProcessingPage's status text
  posts,     \* ... the form data of every POST /upload sent, in order
  fetched,   \* ... what each fetch settled with, in order
  timers,    \* ... the navigations scheduled with setTimeout, in order
  navs,      \* ... the navigate calls made, in order
  metricsData,    \* ... results page state
  plotImage,      \* ... results page state
  interpretation, \* ... results page state
  uiFiles,   \* FileUpload: the files list
  uiLast     \* ... the last call made on it, with its alert

handlerVars == << pc, req, files, results, idx, fileList, bucket, inputs, disk,
                  simExit, sends, reads, trace, log >>
shellVars == << shPc, shBody, mcCommand, mcProcess >>
pageVars == << route, locState, ppPc, ppStatus, posts, fetched, timers, navs,
               metricsData, plotImage, interpretation >>
uploadVars == << uiFiles, uiLast >>
vars == << handlerVars, shellVars, pageVars, uploadVars >>

\* the variables of the parts of the system a handler step does not touch
elsewhere == << shellVars, pageVars, uploadVars >>

NoRequest == [parts |-> << >>, body |-> NoFields, convention |-> "array"]

\* what the clients send: request A ranges over the part sequences, form
\* bodies and upload conventions; request B, the concurrent one, is one PDF
\* with a question of its own
ClientParts(r) == IF r = "A" THEN SeqsUpTo(PartKinds, MaxFiles) ELSE { << PdfPart >> }
ClientBodies(r) == IF r = "A" THEN Bodies ELSE { OtherBody }
Conventions(r) == IF r = "A" THEN {"array", "single"} ELSE {"array"}

\* the values Math.round(Math.random() * 1E9) takes for the parts of a
\* request: any for request A, whose names so collide or not with each
\* other and with B's; 0 for request B
RandomDraws(r) ==
  IF r = "A" THEN [1..MaxFiles -> 0..MaxRnd] ELSE { [i \in 1..MaxFiles |-> 0] }

\* the handler's side before any request
HandlerInit ==
  /\ pc = [r \in Reqs |-> "idle"]
  /\ req = [r \in Reqs |-> NoRequest]
  /\ files = [r \in Reqs |-> << >>]
  /\ results = [r \in Reqs |-> << >>]
  /\ idx = [r \in Reqs |-> 0]
  /\ fileList = [r \in Reqs |-> << >>]
  /\ bucket \in InitBuckets
  /\ inputs = {}
  /\ disk \in InitDisks
  /\ simExit = [r \in Reqs |-> "running"]
  /\ sends = [r \in Reqs |-> << >>]
  /\ reads = [r \in Reqs |-> << >>]
  /\ trace = [r \in Reqs |-> << >>]
  /\ log = [r \in Reqs |-> << >>]

\* step 4 on its own is not running
ShellIdle ==
  /\ shPc = "off"
  /\ shBody = NoFields
  /\ mcCommand = << >>
  /\ mcProcess = << >>

\* no browser page is open
BrowserIdle ==
  /\ route = "/"
  /\ locState = << >>
  /\ ppPc = "off"
  /\ ppStatus = ""
  /\ posts = << >>
  /\ fetched = << >>
  /\ timers = << >>
  /\ navs = << >>
  /\ metricsData = << >>
  /\ plotImage = << >>
  /\ interpretation = << >>

UploadIdle == uiFiles = << >> /\ uiLast = << >>

Init ==
  /\ HandlerInit
  /\ ShellIdle
  /\ BrowserIdle
  /\ UploadIdle

\* a call that ended: which, on what, and "ok" or the error message
Ev(call, arg, outcome) == [call |-> call, arg |-> arg, outcome |-> outcome]

Logged(r, e) == log' = [log EXCEPT ![r] = Append(@, e)]

\* the calls request r has made so far, ended or pending
Calls(r) ==
  { log[r][i].call : i \in DOMAIN log[r] }
    \cup (IF pc[r] \in {"put", "list", "download", "extract", "sim"}
            THEN { pc[r] } ELSE { })

(***************************************************************************)
(* Responses                                                               *)
(***************************************************************************)
Response(status, body) == [status |-> status, body |-> body]

\* the response the client receives: the first send; a later send throws
\* ERR_HTTP_HEADERS_SENT and delivers nothing
Answered(r) == sends[r] # << >>
Received(r) == sends[r][1]

HeadersSent == "Cannot set headers after they are sent to the client"

\* req.body.question || "Run a comprehensive financial risk analysis"
UserQuestion(body) ==
  IF "question" \in DOMAIN body /\ body.question # "" THEN body.question
  ELSE DefaultQuestion

\* the identifiers in scope where the response data is assembled
HandlerScope(r) ==
  [files |-> files[r], results |-> results[r], fileList |-> fileList[r],
   userQuestion |-> UserQuestion(req[r].body)]

\* evaluation of an identifier: its binding, or a ReferenceError
Identifier(name, scope) ==
  IF name \in DOMAIN scope
    THEN [threw |-> FALSE, value |-> scope[name]]
    ELSE [threw |-> TRUE, message |-> name \o " is not defined"]

(***************************************************************************)
(* handleUpload: the pieces of the handler                                 *)
(***************************************************************************)
\* the handler returns after the send calls `attempts`
Finish(r, attempts) ==
  /\ sends' = [sends EXCEPT ![r] = @ \o attempts]
  /\ trace' = [trace EXCEPT ![r] = @ \o [i \in DOMAIN attempts |-> "send"]]
  /\ pc' = [pc EXCEPT ![r] = "done"]

\* the handler suspends at `at`
Await(r, at) ==
  /\ pc' = [pc EXCEPT ![r] = at]
  /\ trace' = [trace EXCEPT ![r] = Append(@, at)]
  /\ sends' = sends

\* catch (error) { return res.status(500).send({ message: error.message }) }
Catch(r, message) ==
  Finish(r, << Response(500, [message |-> message]) >>)

\* variant: the single-file fallback wraps req.file without testing it
Intake_WrapFile(rq) ==
  IF "files" \in DOMAIN rq /\ Len(rq.files) # 0 THEN rq.files
  ELSE << IF "file" \in DOMAIN rq THEN rq.file
          ELSE [originalname |-> "undefined", filename |-> "undefined",
                mimetype |-> "undefined"] >>

\* const files = req.files && req.files.length ? req.files
\*                 : (req.file ? [req.file] : [])
Intake(rq) ==
  IF "files" \in DOMAIN rq /\ Len(rq.files) # 0 THEN rq.files
  ELSE IF "file" \in DOMAIN rq THEN << rq.file >>
  ELSE << >>

\* what multer leaves on the request for the accepted files
MulterRequest(convention, accepted) ==
  IF convention = "array" THEN [files |-> accepted]
  ELSE IF accepted # << >> THEN [file |-> accepted[1]]
  ELSE NoFields

\* upload.single / upload.array with the fileFilter: each part in turn is
\* counted against the convention's limit and then shown to the filter; the
\* first error ends the request
NoError == ""
MsgOnlyPdf == "Only .pdf format allowed!"
MsgUnexpectedField == "Unexpected field"

MulterError(convention, parts) ==
  LET bad(i) == \/ convention = "single" /\ i > 1
                \/ ~FileFilter(parts[i])
  IN
  IF \E i \in DOMAIN parts : bad(i)
    THEN LET i == CHOOSE i \in DOMAIN parts :
                    bad(i) /\ \A j \in 1..(i - 1) : ~bad(j)
         IN IF convention = "single" /\ i > 1 THEN MsgUnexpectedField
            ELSE MsgOnlyPdf
    ELSE NoError

\* multer hands the error to next(err) and handleUpload is not called; the
\* router mounts no error middleware, so Express's final handler answers
\* with err.status || 500 and an error page
ErrorPage(message) == [page |-> "Error: " \o message]

OnMulterError(r, message) ==
  /\ pc' = [pc EXCEPT ![r] = "rejected"]
  /\ sends' = [sends EXCEPT ![r] = Append(@, Response(500, ErrorPage(message)))]
  /\ trace' = [trace EXCEPT ![r] = Append(@, "send")]

\* names of the objects of a bucket, as list() returns them
Listing(b) == [i \in DOMAIN b |-> b[i].name]
StoredNames(b) == { b[i].name : i \in DOMAIN b }

\* fs.readFileSync(file.path): the bytes of part i of request r
FileContent(r, i) == [of |-> r, part |-> i]

\* variant: upload with upsert: true replaces an existing object
Upload_Upsert(b, name, content) ==
  [error |-> NoError,
   bucket |-> IF name \in StoredNames(b)
                THEN [k \in DOMAIN b |->
                        IF b[k].name = name THEN StoredObject(name, content)
                        ELSE b[k]]
                ELSE Append(b, StoredObject(name, content))]

\* storage.from('pdfs').upload(name, content, { upsert: false }) without a
\* transport error: the error it returns and the bucket it leaves
Upload(b, name, content) ==
  IF name \in StoredNames(b)
    THEN [error |-> DuplicateError, bucket |-> b]
    ELSE [error |-> NoError, bucket |-> Append(b, StoredObject(name, content))]

\* first position from i on that the download loop does not skip
NextDownload(list, i) ==
  IF \E j \in i..Len(list) : list[j] # Placeholder
    THEN CHOOSE j \in i..Len(list) :
           /\ list[j] # Placeholder
           /\ \A k \in i..(j - 1) : list[k] = Placeholder
    ELSE Len(list) + 1

\* the download loop from position i on: the next download, or, after the
\* last one, the start of the extraction process
ContinueDownloads(r, list, i) ==
  LET j == NextDownload(list, i) IN
  IF j <= Len(list)
    THEN /\ idx' = [idx EXCEPT ![r] = j]
         /\ Await(r, "download")
    ELSE /\ idx' = idx
         /\ Await(r, "extract")

\* variant: a failed download is thrown like a failed upload
OnDownloadError_Throw(r) ==
  /\ Catch(r, TransportError)
  /\ idx' = idx

\* if (downloadError) { console.error(..); continue; }
OnDownloadError(r) ==
  ContinueDownloads(r, fileList[r], idx[r] + 1)

\* variant: the inputs directory is emptied before a file is written
SaveInput_Replace(dir, name) == { name }

\* fs.writeFileSync(path.join(inputsDir, file.name), buffer)
SaveInput(dir, name) == dir \cup { name }

\* the upload loop after files[idx] was stored: the next upload, or, after
\* the last one, the bucket listing
ContinueUploads(r) ==
  IF idx[r] < Len(files[r])
    THEN /\ idx' = [idx EXCEPT ![r] = @ + 1]
         /\ Await(r, "put")
    ELSE /\ idx' = idx
         /\ Await(r, "list")

\* variant: a failed upload is logged and the loop goes on
OnPutError_Continue(r, message) ==
  /\ ContinueUploads(r)
  /\ bucket' = bucket

\* variant: a failed upload is tried again
OnPutError_Retry(r, message) ==
  /\ Await(r, "put")
  /\ idx' = idx
  /\ bucket' = bucket

\* variant: a failed upload removes the objects the request stored before
OnPutError_Rollback(r, message) ==
  /\ Catch(r, message)
  /\ idx' = idx
  /\ bucket' = SelectSeq(bucket, LAMBDA o : o.content.of # r)

\* if (error) throw error     (storage upload): the catch block answers and
\* leaves the bucket as the earlier uploads of the loop made it
OnPutError(r, message) ==
  /\ Catch(r, message)
  /\ idx' = idx
  /\ bucket' = bucket

\* variant: a failed listing is taken for an empty one
OnListError_Proceed(r) ==
  /\ fileList' = fileList
  /\ ContinueDownloads(r, << >>, 1)

\* if (listError) { console.error(..) } ... fallback response
OnListError(r) ==
  /\ Finish(r, << Response(200, [message |-> MsgListSkipped,
                                 files |-> results[r]]) >>)
  /\ UNCHANGED << fileList, idx >>

\* variant: a failed extraction is logged only, as in the callback version
OnExtractError_LogOnly(r, message) ==
  Await(r, "sim")

\* catch (scriptError) { throw new Error(`PDF Processor failed: ...`) }
OnExtractError(r, message) ==
  Catch(r, PdfPrefix \o message)

\* step 5: read computed_metrics.json; a missing file leaves null
ReadMetrics(r, d) ==
  IF ExistsSync(d, ArtifactPath(r, MetricsFile))
    THEN ReadJson(d, ArtifactPath(r, MetricsFile))
    ELSE Null

\* the responseData the handler assembles, or the error it throws doing so
ResponseData(r, d) ==
  LET q == Identifier("question", HandlerScope(r))
      fullAnalysisPath == ArtifactPath(r, FullFile)
      metricsPath == ArtifactPath(r, MetricsFile)
  IN
  IF ExistsSync(d, fullAnalysisPath)
    THEN IF q.threw THEN q
         ELSE [threw |-> FALSE,
               value |-> [question |-> q.value,
                          answer |-> ComputedAnswer(ReadJson(d, fullAnalysisPath)),
                          reasoning |-> Explanation(ReadJson(d, fullAnalysisPath))]]
  ELSE IF ExistsSync(d, metricsPath)
    THEN IF q.threw THEN q
         ELSE [threw |-> FALSE,
               value |-> [question |-> q.value,
                          answer |-> ReadJson(d, metricsPath),
                          reasoning |-> MsgMetricsOnly]]
  ELSE [threw |-> TRUE, message |-> MsgNoOutput]

\* the artifact files result collection reads, in order
CollectReads(r, d) ==
  (IF ExistsSync(d, ArtifactPath(r, MetricsFile)) THEN << MetricsFile >> ELSE << >>)
  \o (IF ExistsSync(d, ArtifactPath(r, FullFile)) THEN << FullFile >>
      ELSE IF ExistsSync(d, ArtifactPath(r, MetricsFile)) THEN << MetricsFile >>
      ELSE << >>)

\* the send calls of result collection: the analysis response, then the
\* data envelope if responseData could be built, then the catch block's 500
\* for whatever was thrown
CollectSends(r, d) ==
  LET first == Response(200, [message |-> MsgSimDone, analysis |-> ReadMetrics(r, d)])
      rd == ResponseData(r, d)
  IN
  IF rd.threw
    THEN << first, Response(500, [message |-> rd.message]) >>
    ELSE << first,
            Response(200, [message |-> MsgAnalysisDone, files |-> results[r],
                           data |-> rd.value]),
            Response(500, [message |-> HeadersSent]) >>

\* the reads and sends of result collection in the order the handler makes
\* them: step 5 reads computed_metrics.json if it exists, the analysis
\* response is sent, then the artifact for responseData is read if one
\* exists, and the remaining send calls follow
CollectOrder(r, d) ==
  LET hasMetrics == ExistsSync(d, ArtifactPath(r, MetricsFile))
      hasFull == ExistsSync(d, ArtifactPath(r, FullFile))
  IN
  (IF hasMetrics THEN << "read" >> ELSE << >>)
  \o << "send" >>
  \o (IF hasFull \/ hasMetrics THEN << "read" >> ELSE << >>)
  \o [i \in 1..(Len(CollectSends(r, d)) - 1) |-> "send"]

\* steps 5 to 8 after the simulation exited with code 0
CollectResult(r) ==
  /\ sends' = [sends EXCEPT ![r] = @ \o CollectSends(r, disk)]
  /\ reads' = [reads EXCEPT ![r] = @ \o CollectReads(r, disk)]
  /\ trace' = [trace EXCEPT ![r] = @ \o CollectOrder(r, disk)]
  /\ pc' = [pc EXCEPT ![r] = "done"]

\* variant: a failed simulation is logged only and collection goes on
OnSimError_Ignore(r, message) ==
  CollectResult(r)

\* catch (mcError) { throw new Error(`Monte Carlo simulation failed: ...`) }
OnSimError(r, message) ==
  /\ Catch(r, McPrefix \o message)
  /\ reads' = reads

(***************************************************************************)
(* Actions                                                                 *)
(***************************************************************************)
\* POST /upload arrives: multer filters and names the parts, then
\* handleUpload runs up to its first await
Receive(r) ==
  /\ pc[r] = "idle"
  /\ \E parts \in ClientParts(r), body \in ClientBodies(r),
        convention \in Conventions(r), now \in Nows,
        rnd \in RandomDraws(r) :
       LET accepted == [i \in DOMAIN parts |->
                          [originalname |-> OriginalName(parts[i]),
                           filename |-> Filename(parts[i], now, rnd[i]),
                           mimetype |-> parts[i].mimetype]]
           err == MulterError(convention, parts)
           taken == Intake(MulterRequest(convention, accepted))
       IN
       /\ \A i \in DOMAIN rnd : i > Len(parts) => rnd[i] = 0
       /\ req' = [req EXCEPT ![r] = [parts |-> parts, body |-> body,
                                     convention |-> convention]]
       /\ IF err # NoError
            THEN /\ files' = files
                 /\ OnMulterError(r, err)
          ELSE IF Len(taken) = 0
            THEN /\ files' = files
                 /\ Finish(r, << Response(400, [message |-> MsgNoFile]) >>)
          ELSE /\ files' = [files EXCEPT ![r] = taken]
               /\ Await(r, "put")
       /\ idx' = [idx EXCEPT ![r] = 1]
  /\ UNCHANGED << results, fileList, bucket, inputs, disk, simExit, reads, log >>
  /\ UNCHANGED elsewhere

\* the storage upload of files[idx] returns
PutDone(r) ==
  /\ pc[r] = "put"
  /\ LET file == files[r][idx[r]]
         up == Upload(bucket, file.filename, FileContent(r, idx[r]))
     IN
     \/ \* the object is created
        /\ up.error = NoError
        /\ bucket' = up.bucket
        /\ results' = [results EXCEPT ![r] =
                         Append(@, [originalName |-> file.originalname,
                                    storedName |-> file.filename,
                                    supabasePath |-> file.filename,
                                    publicUrl |-> "https://storage/" \o file.filename])]
        /\ Logged(r, Ev("put", file.filename, "ok"))
        /\ ContinueUploads(r)
     \/ \* upsert: false and the name exists, or a transport error
        /\ \E e \in {up.error, TransportError} \ {NoError} :
             /\ Logged(r, Ev("put", file.filename, e))
             /\ OnPutError(r, e)
        /\ results' = results
  /\ UNCHANGED << req, files, fileList, inputs, disk, simExit, reads >>
  /\ UNCHANGED elsewhere

\* the bucket listing returns
ListDone(r) ==
  /\ pc[r] = "list"
  /\ \/ /\ fileList' = [fileList EXCEPT ![r] = Listing(bucket)]
        /\ Logged(r, Ev("list", "", "ok"))
        /\ ContinueDownloads(r, Listing(bucket), 1)
     \/ /\ Logged(r, Ev("list", "", TransportError))
        /\ OnListError(r)
  /\ UNCHANGED << req, files, results, bucket, inputs, disk, simExit, reads >>
  /\ UNCHANGED elsewhere

\* the download of fileList[idx] returns
DownloadDone(r) ==
  /\ pc[r] = "download"
  /\ LET name == fileList[r][idx[r]] IN
     \/ /\ inputs' = SaveInput(inputs, name)
        /\ Logged(r, Ev("download", name, "ok"))
        /\ ContinueDownloads(r, fileList[r], idx[r] + 1)
     \/ /\ inputs' = inputs
        /\ Logged(r, Ev("download", name, TransportError))
        /\ OnDownloadError(r)
  /\ UNCHANGED << req, files, results, fileList, bucket, disk, simExit, reads >>
  /\ UNCHANGED elsewhere

\* the extraction process exits
ExtractDone(r) ==
  /\ pc[r] = "extract"
  /\ \/ /\ Logged(r, Ev("extract", "", "ok"))
        /\ Await(r, "sim")
     \/ \E e \in ExecErrors :
          /\ Logged(r, Ev("extract", "", e))
          /\ OnExtractError(r, e)
  /\ UNCHANGED << req, files, results, idx, fileList, bucket, inputs, disk,
                  simExit, reads >>
  /\ UNCHANGED elsewhere

\* the simulation process of request r writes its artifacts and exits
SimExit(r) ==
  /\ pc[r] = "sim"
  /\ \/ \E w \in Writes :
          /\ disk' = Written(disk, MlSimulatorDir(r), r, w)
          /\ simExit' = [simExit EXCEPT ![r] = "ok"]
          /\ Logged(r, Ev("sim", w, "ok"))
     \/ \E e \in ExecErrors :
          /\ disk' = disk
          /\ simExit' = [simExit EXCEPT ![r] = e]
          /\ Logged(r, Ev("sim", "none", e))
  /\ pc' = [pc EXCEPT ![r] = "simExited"]
  /\ UNCHANGED << req, files, results, idx, fileList, bucket, inputs, sends,
                  reads, trace >>
  /\ UNCHANGED elsewhere

\* the handler resumes after the simulation process: result collection
Collect(r) ==
  /\ pc[r] = "simExited"
  /\ IF simExit[r] = "ok" THEN CollectResult(r) ELSE OnSimError(r, simExit[r])
  /\ UNCHANGED << req, files, results, idx, fileList, bucket, inputs, disk,
                  simExit, log >>
  /\ UNCHANGED elsewhere

Next ==
  \E r \in Reqs :
    \/ Receive(r)
    \/ PutDone(r)
    \/ ListDone(r)
    \/ DownloadDone(r)
    \/ ExtractDone(r)
    \/ SimExit(r)
    \/ Collect(r)

Spec == Init /\ [][Next]_vars

(***************************************************************************)
(* Step 4 by characters: the simulation command and the shell              *)
(***************************************************************************)
MaxQ == 3

DQ == "\""
BS == "\\"
DOLLAR == "$"
BT == "<backtick>"
SP == " "

\* the characters a question is made of: a letter and the ones /bin/sh
\* treats specially
QuestionChars == { "q", SP, DQ, BS, DOLLAR, BT }

\* "Run a comprehensive financial risk analysis", its words as units
DefaultQuestionChars ==
  << "Run", SP, "a", SP, "comprehensive", SP, "financial", SP, "risk", SP,
     "analysis" >>

ShBodies == { NoFields } \cup { [question |-> q] : q \in SeqsUpTo(QuestionChars, MaxQ) }

\* req.body.question || "Run a comprehensive financial risk analysis"
UserQuestionChars(body) ==
  IF "question" \in DOMAIN body /\ body.question # << >> THEN body.question
  ELSE DefaultQuestionChars

\* userQuestion.replace(..): a backslash is put before every double quote
RECURSIVE EscapedQuestion(_)
EscapedQuestion(q) ==
  IF q = << >> THEN << >>
  ELSE (IF Head(q) = DQ THEN << BS, DQ >> ELSE << Head(q) >>)
       \o EscapedQuestion(Tail(q))

PythonPath == "venv/bin/python"
MonteCarloScriptPath == "ml-simulator/montecarlo.py"

\* the template "${pythonPath}" "${monteCarloScriptPath}" "${escapedQuestion}"
McCommand(q) ==
  << DQ, PythonPath, DQ, SP, DQ, MonteCarloScriptPath, DQ, SP, DQ >>
    \o EscapedQuestion(q) \o << DQ >>

\* what /bin/sh, which exec hands the command line to, puts in place of a
\* parameter expansion and of a command substitution
Expansion == "<expansion>"
Substitution == "<substitution>"

\* where the parameter name after the dollar sign at position i ends
NameEnd(cmd, i) ==
  IF cmd[i + 1] = DOLLAR THEN i + 2
  ELSE LET rest == { j \in (i + 1)..Len(cmd) : cmd[j] # "q" } IN
       IF rest = { } THEN Len(cmd) + 1
       ELSE CHOOSE j \in rest : \A k \in rest : j <= k

\* /bin/sh reading the command line from position i on; st is the word
\* being built, the words completed, whether a double quote is open and
\* whether anything was expanded or substituted so far
RECURSIVE ShScan(_, _, _)
ShScan(cmd, i, st) ==
  IF i > Len(cmd)
    THEN [error |-> st.quoted,
          argv |-> IF st.open THEN Append(st.argv, st.word) ELSE st.argv,
          expanded |-> st.expanded]
  ELSE
    LET c == cmd[i]
        n == IF i < Len(cmd) THEN cmd[i + 1] ELSE ""
        lit(ch, k) == ShScan(cmd, i + k,
                             [st EXCEPT !.word = Append(@, ch), !.open = TRUE])
        closing == { j \in (i + 1)..Len(cmd) : cmd[j] = BT /\ cmd[j - 1] # BS }
    IN
    IF c = BT
      THEN IF closing = { }
             THEN [error |-> TRUE, argv |-> st.argv, expanded |-> TRUE]
             ELSE ShScan(cmd, 1 + (CHOOSE j \in closing : \A k \in closing : j <= k),
                         [st EXCEPT !.word = Append(@, Substitution),
                                    !.open = TRUE, !.expanded = TRUE])
    ELSE IF c = DOLLAR /\ n \in {"q", DOLLAR}
      THEN ShScan(cmd, NameEnd(cmd, i),
                  [st EXCEPT !.word = Append(@, Expansion),
                             !.open = TRUE, !.expanded = TRUE])
    ELSE IF st.quoted
      THEN IF c = DQ
             THEN ShScan(cmd, i + 1, [st EXCEPT !.quoted = FALSE])
           ELSE IF c = BS /\ n \in {DOLLAR, BT, DQ, BS}
             THEN lit(n, 2)
           ELSE lit(c, 1)
    ELSE IF c = SP
      THEN ShScan(cmd, i + 1,
                  [st EXCEPT !.argv = IF st.open THEN Append(@, st.word) ELSE @,
                             !.word = << >>, !.open = FALSE])
    ELSE IF c = DQ
      THEN ShScan(cmd, i + 1, [st EXCEPT !.quoted = TRUE, !.open = TRUE])
    ELSE IF c = BS /\ i < Len(cmd)
      THEN lit(n, 2)
    ELSE lit(c, 1)

\* the process the shell starts for a command line, or its syntax error
Sh(cmd) ==
  ShScan(cmd, 1, [quoted |-> FALSE, word |-> << >>, open |-> FALSE,
                  argv |-> << >>, expanded |-> FALSE])

\* step 4 starts for a form body
ShellInit ==
  /\ HandlerInit
  /\ disk = NoArtifacts
  /\ shPc = "question"
  /\ shBody \in ShBodies
  /\ mcCommand = << >>
  /\ mcProcess = << >>
  /\ BrowserIdle
  /\ UploadIdle

\* the handler takes the question, escapes it and builds the command line
BuildCommand ==
  /\ shPc = "question"
  /\ mcCommand' = McCommand(UserQuestionChars(shBody))
  /\ shPc' = "exec"
  /\ UNCHANGED << shBody, mcProcess, handlerVars, pageVars, uploadVars >>

\* exec(command, { cwd }): /bin/sh -c parses the line and starts the process
Exec ==
  /\ shPc = "exec"
  /\ mcProcess' = << Sh(mcCommand) >>
  /\ shPc' = IF Sh(mcCommand).error THEN "syntaxError" ELSE "started"
  /\ UNCHANGED << shBody, mcCommand, handlerVars, pageVars, uploadVars >>

ShellNext == BuildCommand \/ Exec

ShellSpec == ShellInit /\ [][ShellNext]_vars

(***************************************************************************)
(* Browser: ProcessingPage                                                 *)
(* A value that may be null or undefined is a sequence of length at most   *)
(* one; a key an object lacks is absent from the record's domain.          *)
(***************************************************************************)
MaxPosted == 2

PdfFile == [name |-> "report.pdf", type |-> PdfMime]
TxtFile == [name |-> "notes.txt", type |-> "text/plain"]

TypedQuestion == "What is the Q3 burn rate?"

\* location.state on entry to /processing: none, or what the caller of
\* navigate passed: files, with or without the question the user typed
NavStates ==
  { << >> }
    \cup { << [question |-> TypedQuestion] >> }
    \cup { << [files |-> fs] >> : fs \in SeqsUpTo({ PdfFile }, MaxPosted) }
    \cup { << [files |-> fs, question |-> TypedQuestion] >> :
             fs \in SeqsUpTo({ PdfFile }, MaxPosted) }

\* const { files } = location.state || { files: [] }, as the guard
\* !files || files.length === 0 sees it: empty when there is nothing to send
StateFiles(st) ==
  IF st # << >> /\ "files" \in DOMAIN st[1] THEN st[1].files ELSE << >>

\* variant: the effect does not look at the files
NoFiles_Never(fs) == FALSE

\* !files || files.length === 0
NoFiles(fs) == Len(fs) = 0

\* files.forEach(file => formData.append("pdfFile", file))
FormData(fs) == [i \in DOMAIN fs |-> [field |-> FieldName, value |-> fs[i]]]

CompleteDelay == 1000
ErrorDelay == 3000

Timer(to, st, delay) == [to |-> to, state |-> st, delay |-> delay]

\* a body response.json() rejects
Unparsable == [unparsable |-> TRUE]
IsJson(body) == "unparsable" \notin DOMAIN body /\ "page" \notin DOMAIN body

\* response.ok
Ok(response) == response.status \in 200..299

\* variant: every settled fetch leads to the results page
AfterFetch_AlwaysData(outcome) ==
  [status |-> "Complete!",
   timer |-> Timer("/data",
                   << [data |-> IF /\ outcome.kind = "response"
                                   /\ "data" \in DOMAIN outcome.response.body
                                  THEN << outcome.response.body.data >>
                                  ELSE << >>] >>,
                   CompleteDelay)]

\* what processFiles does once fetch has settled: the status it sets and
\* the navigation it schedules
AfterFetch(outcome) ==
  IF outcome.kind = "reject"
    THEN [status |-> "Network Error", timer |-> Timer("/", << >>, ErrorDelay)]
  ELSE IF ~Ok(outcome.response)
    THEN [status |-> "Error processing files.",
          timer |-> Timer("/", << >>, ErrorDelay)]
  ELSE IF ~IsJson(outcome.response.body)
    THEN [status |-> "Network Error", timer |-> Timer("/", << >>, ErrorDelay)]
  ELSE [status |-> "Complete!",
        timer |-> Timer("/data",
                        << [data |-> IF "data" \in DOMAIN outcome.response.body
                                       THEN << outcome.response.body.data >>
                                       ELSE << >>] >>,
                        CompleteDelay)]

(***************************************************************************)
(* Browser: the results page                                               *)
(***************************************************************************)
\* texts, as sequences of words and characters
PlainText == << "Runway", SP, "holds" >>
MarkedText == << "*", "*", "Risk", "*", "*", SP >>
OuterText == << "Outlook", SP, "=", SP, "stable" >>

\* result objects: with plain or marked-up reasoning, or none
AnalysisObjects ==
  { [question |-> TypedQuestion, answer |-> [runway_months |-> 14], reasoning |-> t] :
      t \in { PlainText, MarkedText } }
    \cup { [question |-> TypedQuestion, answer |-> [runway_months |-> 14]] }

PlotUrl == "data:image/png;base64"

\* an object, and the same with a plot image, an interpretation or both
Decorated(obj) ==
  { obj,
    obj @@ [plotImage |-> PlotUrl],
    obj @@ [interpretation |-> OuterText],
    obj @@ [plotImage |-> PlotUrl, interpretation |-> OuterText] }

\* what `data` of a response can be: a result object, or one nested under
\* "analysis", each with or without plot image and interpretation beside
\* it; an object whose analysis is null; an object with results at both
\* levels
DataShapes ==
  UNION { Decorated(a) : a \in AnalysisObjects }
    \cup UNION { Decorated([analysis |-> a]) : a \in AnalysisObjects }
    \cup { [analysis |-> Null, question |-> "Outer question"],
           [analysis |-> [question |-> TypedQuestion,
                          answer |-> [runway_months |-> 14],
                          reasoning |-> PlainText],
            question |-> "Outer question", answer |-> [burn |-> 3],
            reasoning |-> OuterText] }

\* what a fetch of POST /upload can settle with: the responses handleUpload
\* and the error handler produce, a 200 with the data envelope of
\* part_006:361-365, a 200 whose body is no JSON, and a network failure
SampleResults ==
  << [originalName |-> "report.pdf", storedName |-> "pdfFile-1-0.pdf",
      supabasePath |-> "pdfFile-1-0.pdf",
      publicUrl |-> "https://storage/pdfFile-1-0.pdf"] >>

ServerResponses ==
  { Response(400, [message |-> MsgNoFile]),
    Response(500, [message |-> TransportError]),
    Response(500, ErrorPage(MsgOnlyPdf)),
    Response(200, [message |-> MsgListSkipped, files |-> SampleResults]),
    Response(200, [message |-> MsgSimDone, analysis |-> MetricsDoc("A")]),
    Response(200, [message |-> MsgSimDone, analysis |-> Null]) }

FetchOutcomes ==
  { [kind |-> "reject"] }
    \cup { [kind |-> "response", response |-> rsp] : rsp \in ServerResponses }
    \cup { [kind |-> "response", response |-> Response(200, Unparsable)] }
    \cup { [kind |-> "response",
            response |-> Response(200, [message |-> MsgAnalysisDone,
                                        files |-> SampleResults, data |-> d])] :
            d \in DataShapes }

\* variant: the nested object is never looked for
Analysis_Direct(data) == data

\* const analysis = location.state.data.analysis || location.state.data
Analysis(data) ==
  IF "analysis" \in DOMAIN data /\ data.analysis # Null THEN data.analysis
  ELSE data

\* text.replace(/[*=]/g, '').trim()
RECURSIVE TrimStart(_)
TrimStart(t) == IF t # << >> /\ Head(t) = SP THEN TrimStart(Tail(t)) ELSE t
RECURSIVE TrimEnd(_)
TrimEnd(t) ==
  IF t # << >> /\ t[Len(t)] = SP THEN TrimEnd(SubSeq(t, 1, Len(t) - 1)) ELSE t
Clean(t) == TrimEnd(TrimStart(SelectSeq(t, LAMBDA c : c \notin {"*", "="})))

ReasoningDefault == << "Reasoning not available." >>

\* what the results page renders from its state
View ==
  IF metricsData = << >> /\ plotImage = << >>
    THEN [placeholder |-> TRUE]
    ELSE
      LET m == IF metricsData = << >> THEN EmptyObject ELSE metricsData[1] IN
      [placeholder |-> FALSE,
       question |-> IF "question" \in DOMAIN m /\ m.question # ""
                      THEN m.question ELSE "General Analysis",
       cards |-> IF "answer" \in DOMAIN m THEN << m.answer >> ELSE << >>,
       plotSection |-> plotImage,
       interpretationSection |->
         << Clean(IF interpretation # << >> THEN interpretation[1]
                  ELSE IF "reasoning" \in DOMAIN m /\ m.reasoning # << >>
                    THEN m.reasoning
                  ELSE ReasoningDefault) >>]

(***************************************************************************)
(* Browser: the steps                                                      *)
(***************************************************************************)
\* /processing is entered with some navigation state
PageInit ==
  /\ HandlerInit
  /\ disk = NoArtifacts
  /\ ShellIdle
  /\ UploadIdle
  /\ route = "/processing"
  /\ locState \in NavStates
  /\ ppPc = "mounted"
  /\ ppStatus = "Initializing..."
  /\ posts = << >>
  /\ fetched = << >>
  /\ timers = << >>
  /\ navs = << >>
  /\ metricsData = << >>
  /\ plotImage = << >>
  /\ interpretation = << >>

\* navigate(to, { state })
Navigate(to, st) ==
  /\ navs' = Append(navs, [to |-> to, state |-> st])
  /\ route' = to
  /\ locState' = st

\* ProcessingPage's effect: redirect without files, else processFiles up to
\* the fetch
Enter ==
  /\ ppPc = "mounted"
  /\ IF NoFiles(StateFiles(locState))
       THEN /\ Navigate("/", << >>)
            /\ ppPc' = "left"
            /\ UNCHANGED << ppStatus, posts >>
       ELSE /\ ppStatus' = "Uploading and Thinking..."
            /\ posts' = Append(posts, FormData(StateFiles(locState)))
            /\ ppPc' = "fetching"
            /\ UNCHANGED << navs, route, locState >>
  /\ UNCHANGED << fetched, timers, metricsData, plotImage, interpretation >>
  /\ UNCHANGED << handlerVars, shellVars, uploadVars >>

\* the fetch settles: status text and the navigation scheduled
FetchSettles ==
  /\ ppPc = "fetching"
  /\ \E outcome \in FetchOutcomes :
       /\ fetched' = Append(fetched, outcome)
       /\ ppStatus' = AfterFetch(outcome).status
       /\ timers' = Append(timers, AfterFetch(outcome).timer)
  /\ ppPc' = "waiting"
  /\ UNCHANGED << route, locState, posts, navs, metricsData, plotImage,
                  interpretation >>
  /\ UNCHANGED << handlerVars, shellVars, uploadVars >>

\* the timeout fires: the scheduled navigate call; /data mounts the results
\* page with its initial state
TimerFires ==
  /\ ppPc = "waiting"
  /\ Navigate(timers[Len(timers)].to, timers[Len(timers)].state)
  /\ ppPc' = IF timers[Len(timers)].to = "/data" THEN "results" ELSE "left"
  /\ UNCHANGED << ppStatus, posts, fetched, timers, metricsData, plotImage,
                  interpretation >>
  /\ UNCHANGED << handlerVars, shellVars, uploadVars >>

\* the results page's effect on location.state
DataEffect ==
  /\ ppPc = "results"
  /\ IF locState # << >> /\ locState[1].data # << >>
       THEN LET data == locState[1].data[1] IN
            /\ metricsData' = << Analysis(data) >>
            /\ plotImage' = IF "plotImage" \in DOMAIN data /\ data.plotImage # ""
                               THEN << data.plotImage >> ELSE plotImage
            /\ interpretation' =
                 IF "interpretation" \in DOMAIN data /\ data.interpretation # << >>
                   THEN << data.interpretation >> ELSE interpretation
       ELSE UNCHANGED << metricsData, plotImage, interpretation >>
  /\ ppPc' = "rendered"
  /\ UNCHANGED << route, locState, ppStatus, posts, fetched, timers, navs >>
  /\ UNCHANGED << handlerVars, shellVars, uploadVars >>

PageNext == Enter \/ FetchSettles \/ TimerFires \/ DataEffect

PageSpec == PageInit /\ [][PageNext]_vars

(***************************************************************************)
(* Browser: the FileUpload component                                       *)
(***************************************************************************)
MaxList == 4
MaxSel == 2

LedgerFile == [name |-> "ledger.pdf", type |-> PdfMime]

\* what a drop or the file dialog hands over: at least one file
Selections == SeqsUpTo({ PdfFile, LedgerFile, TxtFile }, MaxSel) \ { << >> }

\* variant: the selection is taken as it is
ValidFiles_All(selectedFiles) == selectedFiles

\* selectedFiles.filter(file => file.type === "application/pdf")
ValidFiles(selectedFiles) == SelectSeq(selectedFiles, LAMBDA file : file.type = PdfMime)

\* prev.filter((_, i) => i !== index), index counted from 0
WithoutIndex(prev, index) ==
  [j \in 1..(Len(prev) - (IF index \in 0..(Len(prev) - 1) THEN 1 ELSE 0)) |->
     IF j - 1 < index THEN prev[j] ELSE prev[j + 1]]

UploadInit ==
  /\ HandlerInit
  /\ disk = NoArtifacts
  /\ ShellIdle
  /\ BrowserIdle
  /\ UploadIdle

\* validateAndAddFiles(selectedFiles), from handleDrop or handleChange
ValidateAndAddFiles ==
  \E selectedFiles \in Selections :
    LET validFiles == ValidFiles(selectedFiles) IN
    /\ Len(uiFiles) + Len(validFiles) <= MaxList
    /\ uiLast' = << [call |-> "validateAndAddFiles", arg |-> selectedFiles,
                     alert |-> Len(validFiles) # Len(selectedFiles)] >>
    /\ uiFiles' = IF Len(validFiles) > 0 THEN uiFiles \o validFiles ELSE uiFiles
    /\ UNCHANGED << handlerVars, shellVars, pageVars >>

\* removeFile(index), from the button of a listed file
RemoveFile ==
  \E index \in 0..(Len(uiFiles) - 1) :
    /\ uiLast' = << [call |-> "removeFile", arg |-> index, alert |-> FALSE] >>
    /\ uiFiles' = WithoutIndex(uiFiles, index)
    /\ UNCHANGED << handlerVars, shellVars, pageVars >>

UploadNext == ValidateAndAddFiles \/ RemoveFile

UploadSpec == UploadInit /\ [][UploadNext]_vars

(***************************************************************************)
(* Properties                                                              *)
(***************************************************************************)
Other(r) == CHOOSE o \in Reqs : o # r

InFlight(r) == pc[r] \in {"put", "list", "download", "extract", "sim", "simExited"}

\* the ended calls `call` of request r
Ended(r, call) == { i \in DOMAIN log[r] : log[r][i].call = call }
Failed(r, call) == { i \in Ended(r, call) : log[r][i].outcome # "ok" }

\* both external processes of request r exited with code 0 and the handler
\* has returned
PipelineCompleted(r) ==
  /\ pc[r] = "done"
  /\ \E i \in Ended(r, "sim") : log[r][i].outcome = "ok"

\* the handler of request r resumes, in this step, after a simulation that
\* exited with code 0
CollectStep(r) == pc[r] = "simExited" /\ simExit[r] = "ok" /\ pc'[r] = "done"

SharedPath(f) == << "ml-simulator", f >>

\* C1: when the storage put of a file of a request fails, the only response
\* sent is a 500 whose body is exactly {message: the storage error's
\* message}, without files, and the request makes no listing, download,
\* extraction or simulation call and reads no artifact.
C1_PutFailureAborts ==
  \A r \in Reqs : \A i \in Failed(r, "put") :
    /\ Len(files[r]) >= 1
    /\ sends[r] = << Response(500, [message |-> log[r][i].outcome]) >>
    /\ DOMAIN Received(r).body = {"message"}
    /\ Calls(r) = {"put"}
    /\ reads[r] = << >>

\* the second of two files failed after the first was stored
C1_Witness ==
  \E r \in Reqs :
    /\ Len(files[r]) = 2
    /\ Len(log[r]) = 2
    /\ log[r][1].outcome = "ok"
    /\ log[r][2].call = "put" /\ log[r][2].outcome = TransportError
    /\ Len(results[r]) = 1
    /\ Answered(r) /\ Received(r).status = 500

\* C2: when every put succeeded and the bucket listing returns an error, the
\* response is a 200 whose body has message and files, one entry per uploaded
\* file, and no data key, and the request makes no download, extraction or
\* simulation call and reads no artifact.
C2_ListFailureDegrades ==
  \A r \in Reqs : \A i \in Failed(r, "list") :
    /\ sends[r] = << Response(200, [message |-> MsgListSkipped,
                                    files |-> results[r]]) >>
    /\ DOMAIN Received(r).body = {"message", "files"}
    /\ Len(Received(r).body.files) = Len(files[r])
    /\ \A k \in DOMAIN files[r] :
         /\ Received(r).body.files[k].originalName = files[r][k].originalname
         /\ Received(r).body.files[k].storedName = files[r][k].filename
    /\ Calls(r) = {"put", "list"}
    /\ reads[r] = << >>

\* a request with two stored files whose listing failed
C2_Witness ==
  \E r \in Reqs :
    /\ Failed(r, "list") # {}
    /\ Len(files[r]) = 2
    /\ Answered(r) /\ Received(r).status = 200
    /\ Len(Received(r).body.files) = 2

\* a response that reports an analysis, under either envelope key
CarriesAnalysis(r) ==
  /\ Answered(r)
  /\ Received(r).status = 200
  /\ {"data", "analysis"} \cap DOMAIN Received(r).body # {}

C4_SharedArtifactRead ==
  [][ \A r \in Reqs :
        CollectStep(r) =>
          sends'[r][1].body.analysis =
            (IF disk[SharedPath(MetricsFile)] # << >>
               THEN disk[SharedPath(MetricsFile)][1] ELSE Null) ]_vars

\* a request whose own simulation wrote the metrics artifact is answered
\* with the artifact the other request's simulation wrote
C4_Witness ==
  \E r \in Reqs :
    /\ \E i \in Ended(r, "sim") :
         log[r][i].outcome = "ok" /\ log[r][i].arg \in {"metrics", "both"}
    /\ CarriesAnalysis(r)
    /\ "analysis" \in DOMAIN Received(r).body
    /\ Received(r).body.analysis = MetricsDoc(Other(r))

\* C5: every 200 response to a request with n accepted files contains a
\* files array with exactly n entries, one per accepted file in request
\* order, each with a non-empty storedName that differs from its
\* originalName.
C5_FilesPerAccepted ==
  \A r \in Reqs :
    (Answered(r) /\ Received(r).status = 200) =>
      /\ "files" \in DOMAIN Received(r).body
      /\ Len(Received(r).body.files) = Len(files[r])
      /\ \A k \in DOMAIN files[r] :
           /\ Received(r).body.files[k].originalName = files[r][k].originalname
           /\ Received(r).body.files[k].storedName # ""
           /\ Received(r).body.files[k].storedName
                # Received(r).body.files[k].originalName

\* C6: when result collection finds exactly one of the two artifacts, the
\* client receives a 200 whose data.answer is that artifact's metrics
\* (analysis_results.computed_answer of the comprehensive artifact, the whole
\* document of the metrics-only one), and data.reasoning is
\* "Analysis completed (Metrics only)." when only the metrics-only one exists.
C6_SingleArtifactAnswer ==
  [][ \A r \in Reqs :
        ( /\ CollectStep(r)
          /\ (disk[SharedPath(FullFile)] # << >>)
               # (disk[SharedPath(MetricsFile)] # << >>) )
        => /\ sends'[r][1].status = 200
           /\ "data" \in DOMAIN sends'[r][1].body
           /\ IF disk[SharedPath(FullFile)] # << >>
                THEN sends'[r][1].body.data.answer
                       = ComputedAnswer(disk[SharedPath(FullFile)][1])
                ELSE /\ sends'[r][1].body.data.answer
                          = disk[SharedPath(MetricsFile)][1]
                     /\ sends'[r][1].body.data.reasoning = MsgMetricsOnly ]_vars

\* C7: when both processes exited successfully and neither artifact exists,
\* the client receives a 500 with {message: "No analysis output file found."}
\* and never a 200.
C7_NoArtifactFails ==
  [][ \A r \in Reqs :
        ( /\ CollectStep(r)
          /\ disk[SharedPath(FullFile)] = << >>
          /\ disk[SharedPath(MetricsFile)] = << >> )
        => sends'[r][1] = Response(500, [message |-> MsgNoOutput]) ]_vars

\* C8: a single request that supplies question text q and completes the
\* whole pipeline is answered 200 with data.question = q and
\* files[0].originalName equal to the uploaded file's original name.
C8_QuestionEchoed ==
  \A r \in Reqs :
    ( /\ pc[Other(r)] = "idle"
      /\ "question" \in DOMAIN req[r].body
      /\ req[r].body.question # ""
      /\ PipelineCompleted(r)
      /\ \E f \in ArtifactFiles : disk[SharedPath(f)] # << >> )
    => /\ Received(r).status = 200
       /\ "data" \in DOMAIN Received(r).body
       /\ Received(r).body.data.question = req[r].body.question
       /\ "files" \in DOMAIN Received(r).body
       /\ Received(r).body.files[1].originalName = files[r][1].originalname

\* C9: when the extraction process exits nonzero or its execution throws,
\* the response is a 500 whose message is "PDF Processor failed: " followed
\* by the underlying message, the simulation process is not started and no
\* artifact is read.
C9_ExtractFailureAborts ==
  \A r \in Reqs : \A i \in Failed(r, "extract") :
    /\ sends[r] = << Response(500, [message |-> PdfPrefix \o log[r][i].outcome]) >>
    /\ "sim" \notin Calls(r)
    /\ reads[r] = << >>
    /\ pc[r] = "done"

\* a request whose extraction failed while artifacts lie on disk
C9_Witness ==
  \E r \in Reqs :
    /\ Failed(r, "extract") # {}
    /\ Answered(r) /\ Received(r).status = 500
    /\ disk[SharedPath(MetricsFile)] # << >>

\* C10: when the simulation process exits nonzero or its execution throws,
\* the response is a 500 whose message is "Monte Carlo simulation failed: "
\* followed by the underlying message, no artifact is read and no 200 is
\* sent, also when an artifact of an earlier run exists on disk.
C10_SimFailureAborts ==
  \A r \in Reqs : \A i \in Failed(r, "sim") :
    /\ reads[r] = << >>
    /\ pc[r] \in {"simExited", "done"}
    /\ pc[r] = "simExited" => sends[r] = << >>
    /\ pc[r] = "done" =>
         sends[r] = << Response(500, [message |-> McPrefix \o log[r][i].outcome]) >>

\* a request whose simulation failed was answered while both artifacts of
\* an earlier run lie on disk
C10_Witness ==
  \E r \in Reqs :
    /\ Failed(r, "sim") # {}
    /\ pc[r] = "done"
    /\ Received(r).status = 500
    /\ disk[SharedPath(MetricsFile)] = << MetricsDoc("earlier") >>
    /\ disk[SharedPath(FullFile)] # << >>

\* C11: a request that carries no file part, whether the route takes one
\* file (req.file) or several (req.files), is answered 400 with
\* {message: "No file uploaded"}, and the handler makes no storage put, no
\* listing, no download, starts no process and reads no artifact.
C11_NoFileUploaded ==
  \A r \in Reqs :
    (pc[r] # "idle" /\ req[r].parts = << >>) =>
      /\ req[r].convention \in {"single", "array"}
      /\ sends[r] = << Response(400, [message |-> MsgNoFile]) >>
      /\ Calls(r) = { }
      /\ reads[r] = << >>
      /\ trace[r] = << "send" >>
      /\ results[r] = << >>

C11_Witness ==
  \E r \in Reqs :
    /\ pc[r] = "done"
    /\ req[r].parts = << >>
    /\ req[r].convention = "single"
    /\ Received(r) = Response(400, [message |-> MsgNoFile])
    /\ pc[Other(r)] = "done"
    /\ "put" \in Calls(Other(r))

\* C12: a part whose declared content type is not application/pdf is never
\* put to the bucket and never listed in the files of any response, also
\* when the same request carries valid PDF parts.
C12_NonPdfNeverStored ==
  \A r \in Reqs : \A i \in DOMAIN req[r].parts :
    LET part == req[r].parts[i] IN
    part.mimetype # PdfMime =>
      /\ "put" \notin Calls(r)
      /\ \A now \in Nows, rnd \in 0..MaxRnd :
           Filename(part, now, rnd) \notin StoredNames(bucket)
      /\ \A k \in DOMAIN bucket : bucket[k].content # FileContent(r, i)
      /\ \A o \in Reqs : \A k \in DOMAIN sends[o] :
           "files" \in DOMAIN sends[o][k].body =>
             \A f \in DOMAIN sends[o][k].body.files :
               sends[o][k].body.files[f].originalName # OriginalName(part)

C12_Witness ==
  \E r \in Reqs :
    /\ req[r].parts = << PdfPart, TextPart >>
    /\ req[r].convention = "array"
    /\ pc[r] = "rejected"
    /\ pc[Other(r)] = "done"
    /\ Len(bucket) > 1

\* C13: a request that carries exactly one file, and that file is not a
\* PDF, is answered 400, or 200 with an empty files list; it is never
\* answered with a 5xx status.
C13_NonPdfAnswer ==
  \A r \in Reqs :
    (/\ pc[r] # "idle"
     /\ Len(req[r].parts) = 1
     /\ req[r].parts[1].mimetype # PdfMime) =>
      /\ Answered(r)
      /\ \/ Received(r).status = 400
         \/ /\ Received(r).status = 200
            /\ "files" \in DOMAIN Received(r).body
            /\ Received(r).body.files = << >>

\* position of a step in the order the pipeline is specified in
Rank(step) ==
  CASE step = "put" -> 1
    [] step = "list" -> 2
    [] step = "download" -> 3
    [] step = "extract" -> 4
    [] step = "sim" -> 5
    [] step = "read" -> 6
    [] step = "send" -> 7

\* C14: within one request the steps happen in a fixed order: all storage
\* puts, then one listing, then all downloads, then the extraction process,
\* then the simulation process, then the artifact read, then the response;
\* and no response carrying analysis data is sent before both processes
\* have exited.
C14_FixedOrder ==
  \A r \in Reqs :
    /\ \A i, j \in DOMAIN trace[r] :
         i < j => Rank(trace[r][i]) <= Rank(trace[r][j])
    /\ Cardinality({ i \in DOMAIN trace[r] : trace[r][i] = "list" }) <= 1
    /\ \A k \in DOMAIN sends[r] :
         ("analysis" \in DOMAIN sends[r][k].body \/ "data" \in DOMAIN sends[r][k].body) =>
           /\ \E i \in DOMAIN log[r] : log[r][i] = Ev("extract", "", "ok")
           /\ simExit[r] = "ok"

\* the listed objects the download loop does not skip, and the downloads
\* request r has ended, both in order
Wanted(r) == SelectSeq(fileList[r], LAMBDA n : n # Placeholder)
Downloads(r) == SelectSeq(log[r], LAMBDA e : e.call = "download")

\* C15: a failed download is skipped and aborts nothing: every other listed
\* object is still downloaded, the extraction and the simulation still run,
\* also when every download failed, and the response is the one the
\* request gets when all downloads succeed: it is determined by the
\* outcomes of the two processes and the artifact alone.
C15_DownloadFailureSkipped ==
  \A r \in Reqs :
    Failed(r, "download") # { } =>
      /\ Len(Downloads(r)) <= Len(Wanted(r))
      /\ \A k \in DOMAIN Downloads(r) : Downloads(r)[k].arg = Wanted(r)[k]
      /\ pc[r] # "download" =>
           /\ Len(Downloads(r)) = Len(Wanted(r))
           /\ "extract" \in Calls(r)
      /\ (\E i \in Ended(r, "extract") : log[r][i].outcome = "ok") =>
           "sim" \in Calls(r)
      /\ Answered(r) =>
           LET last == log[r][Len(log[r])] IN
           /\ sends[r][1] =
                IF last.call = "extract"
                  THEN Response(500, [message |-> PdfPrefix \o last.outcome])
                ELSE IF last.outcome # "ok"
                  THEN Response(500, [message |-> McPrefix \o last.outcome])
                ELSE Response(200, [message |-> MsgSimDone,
                                    analysis |-> sends[r][1].body.analysis])
           /\ last.call \in {"extract", "sim"}
           /\ (last.call = "sim" /\ last.outcome = "ok") =>
                sends[r][1].body.analysis \in
                  { Null } \cup { MetricsDoc(by) : by \in Reqs \cup {"earlier"} }

C15_Witness ==
  \E r \in Reqs :
    /\ pc[r] = "done"
    /\ Len(Wanted(r)) >= 2
    /\ Failed(r, "download") = Ended(r, "download")
    /\ Len(Downloads(r)) = Len(Wanted(r))
    /\ Received(r) = Response(200, [message |-> MsgSimDone,
                                    analysis |-> MetricsDoc(r)])

\* every object request r has downloaded successfully is in the inputs
\* directory, and the placeholder is not
InputsHold ==
  /\ Placeholder \notin inputs
  /\ \A r \in Reqs : \A k \in DOMAIN Downloads(r) :
       Downloads(r)[k].outcome = "ok" => Downloads(r)[k].arg \in inputs
  /\ \A r \in Reqs :
       (pc[r] \in {"extract", "sim", "simExited"}) =>
         \A k \in DOMAIN Wanted(r) : Downloads(r)[k].arg = Wanted(r)[k]

\* C16: after a successful listing the handler writes into the shared
\* inputs directory every listed object whose download succeeded, objects
\* stored by earlier requests included and only ".emptyFolderPlaceholder"
\* excluded; it never removes a file from that directory, so the set of
\* files the extraction sees only grows.
C16_InputsOnlyGrow ==
  [][ /\ inputs \subseteq inputs'
      /\ InputsHold' ]_vars

C16_Witness ==
  \E r \in Reqs : \E k \in DOMAIN Downloads(r) :
    /\ Downloads(r)[k].outcome = "ok"
    /\ Downloads(r)[k].arg \in inputs
    /\ \E j \in DOMAIN results[Other(r)] :
         results[Other(r)][j].storedName = Downloads(r)[k].arg
    /\ \A j \in DOMAIN results[r] :
         results[r][j].storedName # Downloads(r)[k].arg
    /\ Placeholder \in { fileList[r][i] : i \in DOMAIN fileList[r] }
    /\ pc[r] = "done"

\* C17: uploads never overwrite: a put whose object name already exists
\* fails and leaves the stored object as it was, and the handler deletes
\* nothing, so the stored objects only grow in number and the content of
\* an object is fixed once it is created.
C17_NoOverwrite ==
  [][ /\ Len(bucket') >= Len(bucket)
      /\ \A k \in DOMAIN bucket : bucket'[k] = bucket[k]
      /\ \A j, k \in DOMAIN bucket' : bucket'[j].name = bucket'[k].name => j = k
      /\ \A r \in Reqs :
           (/\ pc[r] = "put"
            /\ log'[r] # log[r]
            /\ files[r][idx[r]].filename \in StoredNames(bucket)) =>
             /\ bucket' = bucket
             /\ log'[r][Len(log'[r])].outcome # "ok"
             /\ results'[r] = results[r] ]_vars

C17_Witness ==
  \E r \in Reqs : \E i \in Failed(r, "put") :
    /\ log[r][i].outcome = DuplicateError
    /\ \E k \in DOMAIN bucket :
         /\ bucket[k].name = log[r][i].arg
         /\ bucket[k].content = FileContent(Other(r), 1)

\* how many times request r has started `step`
Count(r, step) == Cardinality({ i \in DOMAIN trace[r] : trace[r][i] = step })
Puts(r) == SelectSeq(log[r], LAMBDA e : e.call = "put")

\* C18: nothing is retried: within one request each accepted file is put at
\* most once, the bucket is listed at most once, each listed object is
\* downloaded at most once, and the extraction and the simulation are each
\* started at most once, whatever fails.
C18_NothingRetried ==
  \A r \in Reqs :
    /\ Count(r, "put") <= Len(files[r])
    /\ \A k \in DOMAIN Puts(r) : Puts(r)[k].arg = files[r][k].filename
    /\ Count(r, "list") <= 1
    /\ Count(r, "download") <= Len(Wanted(r))
    /\ \A k \in DOMAIN Downloads(r) : Downloads(r)[k].arg = Wanted(r)[k]
    /\ Count(r, "extract") <= 1
    /\ Count(r, "sim") <= 1

C18_Witness ==
  \E r \in Reqs :
    /\ pc[r] = "done"
    /\ Failed(r, "download") # { }
    /\ Failed(r, "sim") # { }
    /\ Count(r, "put") = 2
    /\ Count(r, "download") >= 2
    /\ Failed(Other(r), "put") # { }

\* C19: for every request and every outcome of its steps the handler
\* attempts exactly one response: once one is sent, no further send call
\* is made, neither on the normal path nor from the catch block.
C19_OneSendAttempt ==
  \A r \in Reqs :
    /\ Len(sends[r]) <= 1
    /\ Count(r, "send") <= 1
    /\ pc[r] = "done" => Len(sends[r]) = 1

\* C20: also when requests are processed strictly one after another, the
\* analysis a request returns was written by that request's own simulation
\* run, never left on disk by an earlier one.
C20_OwnRunAnalysis ==
  \A r \in Reqs :
    (/\ pc[Other(r)] = "idle"
     /\ CarriesAnalysis(r)
     /\ "analysis" \in DOMAIN Received(r).body
     /\ Received(r).body.analysis # Null) =>
      /\ Received(r).body.analysis.by = r
      /\ \E i \in Ended(r, "sim") :
           log[r][i].outcome = "ok" /\ log[r][i].arg \in {"metrics", "both"}

\* the objects request r stored, as the bucket holds them
StoredBy(r) == { k \in DOMAIN bucket : bucket[k].content.of = r }

\* C21: when the put of the k-th file of a request fails, k > 1, the
\* objects stored for its files 1..k-1 stay in the bucket: there is no
\* rollback, so a request answered 500 has changed the bucket, and later
\* requests download and process its objects.
C21_NoRollback ==
  \A r \in Reqs :
    (\E i \in Failed(r, "put") : i > 1) =>
      /\ Received(r).status = 500
      /\ \A j \in DOMAIN Puts(r) :
           Puts(r)[j].outcome = "ok" =>
             \E k \in StoredBy(r) :
               /\ bucket[k].name = files[r][j].filename
               /\ bucket[k].content = FileContent(r, j)
      /\ Cardinality(StoredBy(r)) = Len(Puts(r)) - 1
      /\ Len(results[r]) = Len(Puts(r)) - 1

C21_Witness ==
  \E r \in Reqs :
    /\ \E i \in Failed(r, "put") : i > 1
    /\ Received(r).status = 500
    /\ StoredBy(r) # { }
    /\ pc[Other(r)] = "done"
    /\ \E k \in StoredBy(r) : \E d \in DOMAIN Downloads(Other(r)) :
         /\ Downloads(Other(r))[d] = Ev("download", bucket[k].name, "ok")
         /\ bucket[k].name \in inputs
    /\ \E i \in Ended(Other(r), "extract") : log[Other(r)][i].outcome = "ok"

\* the shell has dealt with the command line of step 4
Executed == shPc \in {"started", "syntaxError"}

\* C22: for every question, also one with double quotes, backslashes,
\* dollar signs or backticks, the command line starts the simulation with
\* exactly three words, python path, script path and question, the third
\* equal to the question character for character; the shell interprets no
\* part of the question.
C22_QuestionVerbatim ==
  Executed =>
    /\ shPc = "started"
    /\ ~mcProcess[1].expanded
    /\ mcProcess[1].argv = << << PythonPath >>, << MonteCarloScriptPath >>,
                              UserQuestionChars(shBody) >>

\* C23: with no question field in the body, or an empty one, the simulation
\* is invoked with the default question; with a non-empty one it is invoked
\* with that text and never with the default.
C23_DefaultQuestion ==
  Executed =>
    /\ shPc = "started"
    /\ Len(mcProcess[1].argv) = 3
    /\ IF "question" \in DOMAIN shBody /\ shBody.question # << >>
         THEN /\ mcProcess[1].argv[3] = shBody.question
              /\ mcProcess[1].argv[3] # DefaultQuestionChars
         ELSE mcProcess[1].argv[3] = DefaultQuestionChars

\* req.body as multer builds it from the text fields of a form
PostBody(form) ==
  IF \E k \in DOMAIN form : form[k].field = "question"
    THEN [question |-> form[CHOOSE k \in DOMAIN form : form[k].field = "question"].value]
    ELSE NoFields

\* C24: when processing is started from the browser with a question, the
\* POST /upload ProcessingPage sends carries that text in the question
\* field together with the pdfFile parts, so the simulation step runs with
\* the user's question.
C24_PostCarriesQuestion ==
  (ppPc = "fetching" /\ "question" \in DOMAIN locState[1]) =>
    /\ \E k \in DOMAIN posts[1] : posts[1][k].field = FieldName
    /\ \E k \in DOMAIN posts[1] :
         /\ posts[1][k].field = "question"
         /\ posts[1][k].value = locState[1].question
    /\ UserQuestion(PostBody(posts[1])) = locState[1].question

\* C25: whenever ProcessingPage shows "Complete!" and navigates to /data
\* after a 200, the navigation state holds an analysis object the results
\* page renders: no 200 of the server leaves the results page in its
\* placeholder.
C25_ResultsRendered ==
  (ppPc = "rendered" /\ ppStatus = "Complete!") =>
    /\ locState[1].data # << >>
    /\ metricsData # << >>
    /\ ~View.placeholder

\* the fetch of POST i came back ok with a body that parses
OkParsable(i) ==
  /\ fetched[i].kind = "response"
  /\ fetched[i].response.status \in 200..299
  /\ "unparsable" \notin DOMAIN fetched[i].response.body

\* the `data` of the body POST i was answered with, if it has one
BodyData(i) ==
  IF "data" \in DOMAIN fetched[i].response.body
    THEN << fetched[i].response.body.data >> ELSE << >>

\* C26: for each POST it sends ProcessingPage schedules exactly one
\* navigation: to /data with state.data equal to the body's data after an
\* ok, parsable response, to / after a non-ok response, a network error or
\* an unparsable body; never /data after a failure, never / after success.
C26_OneNavigationPerPost ==
  /\ Len(timers) = Len(fetched)
  /\ Len(fetched) = (IF ppPc = "fetching" THEN Len(posts) - 1 ELSE Len(posts))
  /\ \A i \in DOMAIN timers :
       IF OkParsable(i)
         THEN /\ timers[i].to = "/data"
              /\ timers[i].state = << [data |-> BodyData(i)] >>
         ELSE /\ timers[i].to = "/"
              /\ timers[i].state = << >>
  /\ posts # << >> =>
       navs = IF ppPc \in {"fetching", "waiting"} THEN << >>
              ELSE << [to |-> timers[1].to, state |-> timers[1].state] >>

C26_Witness ==
  /\ ppPc = "results"
  /\ Len(posts) = 1
  /\ OkParsable(1)
  /\ BodyData(1) # << >>
  /\ navs = << [to |-> "/data", state |-> << [data |-> BodyData(1)] >>] >>

\* the navigation state holds no files: there is none, or it has no files
\* key, or the list is empty
EnteredWithoutFiles ==
  \/ locState = << >>
  \/ "files" \notin DOMAIN locState[1]
  \/ locState[1].files = << >>

ShownData == locState[1].data[1]

\* the results page has run its effect on a navigation state with data
Rendered == ppPc = "rendered" /\ locState # << >> /\ locState[1].data # << >>

\* the object of `data` by the presence of the analysis key
ByKey(data) == IF "analysis" \in DOMAIN data THEN data.analysis ELSE data

\* C28 as stated: with an analysis key in the navigation-state data the
\* results page renders the nested object, otherwise the data itself, and
\* the question, answer entries and reasoning shown are the chosen object's.
C28_ChosenByKey ==
  Rendered =>
    /\ metricsData = << ByKey(ShownData) >>
    /\ View.question = ByKey(ShownData).question
    /\ View.cards = << ByKey(ShownData).answer >>
    /\ "reasoning" \in DOMAIN ByKey(ShownData) =>
         View.interpretationSection = << Clean(ByKey(ShownData).reasoning) >>

\* C28 amended: the nested object is rendered when data.analysis is present
\* and not null, otherwise the data itself; question and answer entries
\* are the chosen object's; the text shown is data.interpretation of the
\* top level when there is one, else the chosen object's reasoning, in both
\* cases without * and = and trimmed.
C28_ChosenByTruthiness ==
  Rendered =>
    LET data == ShownData
        chosen == IF "analysis" \in DOMAIN data /\ data.analysis # Null
                    THEN data.analysis ELSE data
    IN /\ metricsData = << chosen >>
       /\ View.question = chosen.question
       /\ View.cards = (IF "answer" \in DOMAIN chosen THEN << chosen.answer >>
                        ELSE << >>)
       /\ View.interpretationSection =
            << Clean(IF "interpretation" \in DOMAIN data THEN data.interpretation
                     ELSE IF "reasoning" \in DOMAIN chosen THEN chosen.reasoning
                     ELSE ReasoningDefault) >>

C28_Witness ==
  /\ Rendered
  /\ "analysis" \in DOMAIN ShownData
  /\ ShownData.analysis # Null
  /\ "interpretation" \in DOMAIN ShownData
  /\ "reasoning" \in DOMAIN ShownData.analysis
  /\ metricsData = << ShownData.analysis >>

\* C29: a missing optional field omits its section: without a plot image
\* there is no plot section, and without interpretation text and reasoning
\* there is no interpretation section.
C29_MissingOmitsSection ==
  (Rendered /\ ~View.placeholder) =>
    /\ "plotImage" \notin DOMAIN ShownData => View.plotSection = << >>
    /\ ("interpretation" \notin DOMAIN ShownData
          /\ "reasoning" \notin DOMAIN metricsData[1]) =>
         View.interpretationSection = << >>

\* the call a step made
Called(name) == uiLast' # << >> /\ uiLast'[1].call = name

\* the members of a selection that are PDFs, in their order
RECURSIVE PdfMembers(_)
PdfMembers(sel) ==
  IF sel = << >> THEN << >>
  ELSE IF Head(sel).type = "application/pdf"
    THEN << Head(sel) >> \o PdfMembers(Tail(sel))
  ELSE PdfMembers(Tail(sel))

\* C30: after any additions and removeFile calls every file in the list is
\* a PDF; an addition appends exactly the PDF members of the selection, in
\* their order, after the existing entries; removeFile(i) removes exactly
\* the entry at position i and keeps the order of the others.
C30_OnlyPdfsListed ==
  /\ [](\A i \in DOMAIN uiFiles : uiFiles[i].type = "application/pdf")
  /\ [][/\ Called("validateAndAddFiles") =>
            uiFiles' = uiFiles \o PdfMembers(uiLast'[1].arg)
        /\ Called("removeFile") =>
            /\ Len(uiFiles') = Len(uiFiles) - 1
            /\ \A j \in DOMAIN uiFiles' :
                 uiFiles'[j] = IF j <= uiLast'[1].arg THEN uiFiles[j]
                               ELSE uiFiles[j + 1]]_vars

C30_Witness ==
  /\ uiFiles = << LedgerFile, PdfFile >>
  /\ uiLast = << [call |-> "removeFile", arg |-> 1, alert |-> FALSE] >>
====
